---- MODULE Spec2Model ----
(***************************************************************************)
(* Model of the smart-recall-search repository: the smart-search edge      *)
(* function (query row, retrieval, model call, result row, response) and   *)
(* its two pure helpers, extractFragments and calculateConfidenceScore.    *)
(*                                                                         *)
(* A JavaScript string is modelled as a sequence of one-character strings, *)
(* so that splitting, trimming, lower-casing and substring search are      *)
(* computed character by character as the code computes them.              *)
(***************************************************************************)
EXTENDS Integers, Sequences, FiniteSets, Bags, TLC

(***************************************************************************)
(* Bounds of the model.                                                    *)
(***************************************************************************)
\* longest query handed to extractFragments
MaxLen == 4
\* longest query handed to calculateConfidenceScore
MaxQueryLen == 3
\* most items handed to calculateConfidenceScore
MaxItems == 2
\* number of search requests the edge function serves in one behaviour
MaxReq == 2
\* number of knowledge items of one owner when the limit of the retrieval is
\* at stake
MaxOwned == 6
\* number of knowledge_base rows the KnowledgeManager inserts
MaxInserts == 1
\* number of requests of a component that wait for their answer
MaxPending == 1

(***************************************************************************)
(* Characters and strings.                                                 *)
(***************************************************************************)
\* the characters /\s/ and String.prototype.trim treat as white space
Whitespace == {" "}

\* the characters of the separator class [,;]
Separators == {",", ";"}

\* String.prototype.toLowerCase on one character
LowerChar(c) ==
    CASE c = "A" -> "a"
      [] c = "B" -> "b"
      [] c = "D" -> "d"
      [] c = "M" -> "m"
      [] c = "Q" -> "q"
      [] OTHER -> c

\* String.prototype.toLowerCase
toLowerCase(s) == [i \in 1..Len(s) |-> LowerChar(s[i])]

\* index of the first character at or after i that is no white space
RECURSIVE SkipSpaces(_, _)
SkipSpaces(s, i) ==
    IF i <= Len(s) /\ s[i] \in Whitespace THEN SkipSpaces(s, i + 1) ELSE i

\* index of the last character at or before j that is no white space
RECURSIVE SkipSpacesBack(_, _)
SkipSpacesBack(s, j) ==
    IF j >= 1 /\ s[j] \in Whitespace THEN SkipSpacesBack(s, j - 1) ELSE j

\* String.prototype.trim
trim(s) == SubSeq(s, SkipSpaces(s, 1), SkipSpacesBack(s, Len(s)))

\* String.prototype.split(/[,;]\s*/): a separator and the white space that
\* follows it end the current piece; the pieces before, between and after
\* the matches are returned, empty ones included
RECURSIVE SplitSepFrom(_, _, _)
SplitSepFrom(s, i, cur) ==
    IF i > Len(s) THEN <<cur>>
    ELSE IF s[i] \in Separators
         THEN <<cur>> \o SplitSepFrom(s, SkipSpaces(s, i + 1), <<>>)
         ELSE SplitSepFrom(s, i + 1, Append(cur, s[i]))

splitSeparators(s) == SplitSepFrom(s, 1, <<>>)

\* String.prototype.split(/\s+/): a run of white space ends the current
\* piece; leading or trailing white space leaves an empty piece at that end
RECURSIVE SplitWsFrom(_, _, _)
SplitWsFrom(s, i, cur) ==
    IF i > Len(s) THEN <<cur>>
    ELSE IF s[i] \in Whitespace
         THEN <<cur>> \o SplitWsFrom(s, SkipSpaces(s, i + 1), <<>>)
         ELSE SplitWsFrom(s, i + 1, Append(cur, s[i]))

splitWhitespace(s) == SplitWsFrom(s, 1, <<>>)

\* String.prototype.includes: word occurs in content as a substring
includes(content, word) ==
    \E k \in 0..(Len(content) - Len(word)) :
        SubSeq(content, k + 1, k + Len(word)) = word

(***************************************************************************)
(* extractFragments                                                        *)
(***************************************************************************)
NonEmptyString(fragment) == Len(fragment) > 0

\* fragmentsOf without the .map(fragment => fragment.trim())
fragmentsOfUntrimmed(query) ==
    SelectSeq(splitSeparators(toLowerCase(query)), NonEmptyString)

\* the query lower-cased, split, each piece trimmed, empty pieces dropped
fragmentsOf(query) ==
    LET pieces == splitSeparators(toLowerCase(query))
        trimmed == [i \in 1..Len(pieces) |-> trim(pieces[i])]
    IN  SelectSeq(trimmed, NonEmptyString)

\* extractFragments with the test fragments.length > 0
extractFragmentsAnyFragment(query) ==
    IF Len(fragmentsOf(query)) > 0 THEN fragmentsOf(query) ELSE <<query>>

extractFragments(query) ==
    IF Len(fragmentsOf(query)) > 1 THEN fragmentsOf(query) ELSE <<query>>

(***************************************************************************)
(* calculateConfidenceScore.  A number is a fraction [n, d] with d > 0.    *)
(***************************************************************************)
Frac(n, d) == [n |-> n, d |-> d]
FracEq(x, y) == x.n * y.d = y.n * x.d
FracLeq(x, y) == x.n * y.d <= y.n * x.d
FracLess(x, y) == x.n * y.d < y.n * x.d

\* Math.max and Math.min
MathMax(x, y) == IF FracLess(x, y) THEN y ELSE x
MathMin(x, y) == IF FracLess(y, x) THEN y ELSE x

\* the words of the query: query.toLowerCase().split(/\s+/)
queryWordsOf(query) == splitWhitespace(toLowerCase(query))

\* (item.title + ' ' + item.content).toLowerCase()
itemContent(item) == toLowerCase(item.title \o <<" ">> \o item.content)

\* queryWords.filter(word => content.includes(word)).length
matchesOf(query, item) ==
    Cardinality({i \in 1..Len(queryWordsOf(query)) :
                    includes(itemContent(item), queryWordsOf(query)[i])})

\* totalMatches after the forEach
RECURSIVE totalMatches(_, _)
totalMatches(query, contextData) ==
    IF contextData = <<>> THEN 0
    ELSE matchesOf(query, Head(contextData)) + totalMatches(query, Tail(contextData))

\* totalWords after the forEach
totalWords(query, contextData) == Len(queryWordsOf(query)) * Len(contextData)

\* calculateConfidenceScore without the Math.max(0.1, ...)
calculateConfidenceScoreNoFloor(query, contextData) ==
    IF Len(contextData) = 0 THEN Frac(3, 10)
    ELSE MathMin(Frac(95, 100),
                 Frac(totalMatches(query, contextData), totalWords(query, contextData)))

calculateConfidenceScore(query, contextData) ==
    IF Len(contextData) = 0 THEN Frac(3, 10)
    ELSE MathMin(Frac(95, 100),
                 MathMax(Frac(1, 10),
                         Frac(totalMatches(query, contextData),
                              totalWords(query, contextData))))

(***************************************************************************)
(* The store, its tables and the environment of the edge function.         *)
(***************************************************************************)
\* the owners that have an identity
Users == {"u1", "u2"}

\* userId of a request body that carries none
undefined == "undefined"

\* the sender of a request that is signed in as no user
anonymous == "anonymous"

\* the value of a column that was given no value
NULL == "NULL"

\* the bodies { query, userId } a request can carry
RequestBodies ==
    { [query |-> <<>>, userId |-> "u1"],
      [query |-> <<"a", ",", "B">>, userId |-> "u1"],
      [query |-> <<"a", ",", "B">>, userId |-> undefined] }

\* the text of the model's first candidate; <<>> when there is none
ModelTexts == {<<>>, <<"o", "k">>}

\* 'No response generated'
NoResponseGenerated == <<"n", "o", "n", "e">>

\* Date.now() - startTime, in ms
ProcessingTimes == {7}

\* .limit(5)
LIMIT == 5

\* the status of the catch block's response, and of a Response given none
STATUS_ERROR == 500
STATUS_OK == 200

\* the messages of the errors the handler throws
MsgQueryError == "queryError"
MsgNoApiKey == "Gemini API key not configured"
MsgGeminiError == "Gemini API error"

\* the statuses of the model's answers: geminiResponse.ok is status in 200..299
ModelOkStatuses == {200}
ModelErrorStatuses == {500}

\* confidence_score NUMERIC(3,2): the number rounded to hundredths
numeric_3_2(x) == (200 * x.n + x.d) \div (2 * x.d)

VARIABLES
    knowledge_base,   \* table knowledge_base, in table order
    search_queries,   \* table search_queries
    search_results,   \* table search_results: the bag of its rows less their id,
                      \* a column that nothing reads
    geminiApiKey,     \* Deno.env.get('GEMINI_API_KEY') is set
    nextQueryId,      \* the next id gen_random_uuid() gives a search_queries row
    req,              \* the locals of each invocation of the handler
    calls,            \* how often each invocation issued each external call
    fnQuery,          \* argument of the helper under test
    fnItems,          \* argument of the helper under test
    fnOut,            \* its result
    fnDone,           \* the helper has been applied
    authUser,         \* the user of the browser session, supabase.auth.getUser()
    searchInterface,  \* the state of the SearchInterface component
    knowledgeManager, \* the state of the KnowledgeManager component
    nextItemId        \* the next id gen_random_uuid() gives a knowledge_base row

storeVars == <<knowledge_base, search_queries, search_results, geminiApiKey, nextQueryId>>
handlerVars == <<req, calls>>
fnVars == <<fnQuery, fnItems, fnOut, fnDone>>
clientVars == <<authUser, searchInterface, knowledgeManager, nextItemId>>
vars == <<storeVars, handlerVars, fnVars, clientVars>>

Reqs == 1..MaxReq

InitialKnowledge ==
    << [id |-> 101, user_id |-> "u1", title |-> <<"a">>, content |-> <<"B", " ", "c">>,
        tags |-> << <<"t">> >>, created_at |-> 1],
       [id |-> 102, user_id |-> "u2", title |-> <<"Q">>, content |-> <<"a">>,
        tags |-> <<>>, created_at |-> 2] >>

\* queryRecord before the insert has answered
NoRecord == [id |-> 0, user_id |-> NULL, query_text |-> <<>>, query_fragments |-> <<>>]

\* the payload of the search_results insert before it is built
NoResult ==
    [query_id |-> 0, ai_response |-> <<>>, knowledge_matches |-> <<>>, fragments |-> <<>>,
     confidence_score |-> 0, processing_time_ms |-> 0]

\* no Response returned yet
NoResponse ==
    [status |-> 0, error |-> "", response |-> <<>>, knowledgeMatches |-> <<>>,
     processingTime |-> 0, queryId |-> 0]

NoPrompt == [query |-> <<>>, context |-> <<>>]

\* caller is the user the sender of the request is signed in as, which the
\* handler never reads; steps lists what the invocation has done so far
IdleReq ==
    [pc |-> "idle", caller |-> anonymous, steps |-> <<>>,
     query |-> <<>>, userId |-> undefined, queryRecord |-> NoRecord,
     queryError |-> FALSE, knowledgeResults |-> <<>>,
     retrievalError |-> FALSE, contextData |-> <<>>,
     prompt |-> NoPrompt, geminiStatus |-> 0, aiResponse |-> <<>>,
     processingTime |-> 0, resultRow |-> NoResult, resultError |-> FALSE,
     response |-> NoResponse]

NoCalls == [insertQuery |-> 0, retrieve |-> 0, model |-> 0, insertResult |-> 0]

\* toast() not called yet; value is what a description interpolates
NoToast == [title |-> "", description |-> "", value |-> 0]

\* useState(null) of result
NoData == [response |-> <<>>, knowledgeMatches |-> <<>>, processingTime |-> 0, queryId |-> 0]

\* the useState initial values of SearchInterface, lines 24-27; toast is the
\* toast shown last, running holds the calls of handleSearch that have not
\* returned, caught is the error the catch block of the latest call has caught
SearchInterfaceMounted ==
    [query |-> <<>>, isSearching |-> FALSE, result |-> NoData, searchHistory |-> <<>>,
     toast |-> NoToast, running |-> <<>>, caught |-> ""]

\* useState<KnowledgeItem | null>(null) of editingItem
NoItem ==
    [id |-> 0, user_id |-> NULL, title |-> <<>>, content |-> <<>>, tags |-> <<>>,
     created_at |-> 0]

\* useState({ title: '', content: '', content_type: 'document', tags: '' })
EmptyForm == [title |-> <<>>, content |-> <<>>, tags |-> <<>>]

\* the useState initial values of KnowledgeManager, lines 254-263; pending holds
\* the calls of handleSubmit and handleDelete whose request has not answered,
\* loaded says that the effect of the mount has run; its toasts change no state
KnowledgeManagerMounted ==
    [items |-> <<>>, isDialogOpen |-> FALSE, editingItem |-> NoItem, formData |-> EmptyForm,
     pending |-> <<>>, loaded |-> FALSE]

\* the id of the first knowledge_base row inserted after InitialKnowledge
FirstNewItemId == 103

\* the two components mounted, nobody signed in yet
ClientIdle ==
    /\ authUser = NULL
    /\ searchInterface = SearchInterfaceMounted
    /\ knowledgeManager = KnowledgeManagerMounted
    /\ nextItemId = FirstNewItemId

HandlerInit ==
    /\ knowledge_base = InitialKnowledge
    /\ search_queries = {}
    /\ search_results = EmptyBag
    /\ geminiApiKey \in BOOLEAN
    /\ nextQueryId = 1
    /\ req = [r \in Reqs |-> IdleReq]
    /\ calls = [r \in Reqs |-> NoCalls]

FnIdle ==
    /\ fnQuery = <<>>
    /\ fnItems = <<>>
    /\ fnOut = <<>>
    /\ fnDone = FALSE

Init == HandlerInit /\ FnIdle /\ ClientIdle

(***************************************************************************)
(* The handler, one action per await.                                      *)
(***************************************************************************)
\* the catch block with the status option of the Response left out
ErrorResponseNoStatus(message) == [NoResponse EXCEPT !.status = STATUS_OK, !.error = message]

\* the catch block: Response { error: error.message } with status 500
ErrorResponse(message) == [NoResponse EXCEPT !.status = STATUS_ERROR, !.error = message]

\* the row the insert into search_queries sends: an undefined user_id is
\* dropped from the JSON body, so the column takes its default, NULL
QueryRow(id, query, userId) ==
    [id |-> id,
     user_id |-> IF userId = undefined THEN NULL ELSE userId,
     query_text |-> query,
     query_fragments |-> extractFragments(query)]

\* the map of line 53 with the whole row kept
ProjectionWholeRow(item) == item

\* knowledgeResults?.map(item => ({title, content, tags, created_at})) || []
Projection(item) ==
    [title |-> item.title, content |-> item.content, tags |-> item.tags,
     created_at |-> item.created_at]

contextDataOf(knowledgeResults) ==
    [i \in 1..Len(knowledgeResults) |-> Projection(knowledgeResults[i])]

\* .eq('user_id', userId): the rows of the table the filter keeps, in order
OwnedBy(userId) ==
    SelectSeq(knowledge_base, LAMBDA item : item.user_id = userId)

\* the retrieval without .limit(5)
LimitOff(rows) == rows

\* .limit(5)
Limit(rows) == SubSeq(rows, 1, IF Len(rows) < LIMIT THEN Len(rows) ELSE LIMIT)

\* the results a text search of the owner's rows can give: the engine decides
\* which rows match, the matching rows keep their order, at most LIMIT come back
SearchOutcomes(userId) ==
    { Limit(SelectSeq(OwnedBy(userId), LAMBDA item : item.id \in ids)) :
        ids \in SUBSET { OwnedBy(userId)[i].id : i \in 1..Len(OwnedBy(userId)) } }

\* lines 22-37: the body of a request of this caller is read and the insert
\* into search_queries is sent
ReceiveFrom(r, caller, query, userId) ==
    /\ req[r].pc = "idle"
    /\ req' = [req EXCEPT ![r].pc = "insertQuery", ![r].caller = caller,
                           ![r].query = query, ![r].userId = userId]
    /\ calls' = [calls EXCEPT ![r].insertQuery = @ + 1]
    /\ UNCHANGED <<storeVars, fnVars, clientVars>>

\* a request whose body names its sender, as SearchInterface.handleSearch
\* builds it ({ query, userId: user.id }), or names nobody
Receive(r, query, userId) ==
    ReceiveFrom(r, IF userId = undefined THEN anonymous ELSE userId, query, userId)

\* QueryInserted with a row of the same owner and text reused when there is one
QueryInsertedDedup(r) ==
    /\ req[r].pc = "insertQuery"
    /\ LET row == QueryRow(nextQueryId, req[r].query, req[r].userId)
           same == {old \in search_queries :
                        old.user_id = row.user_id /\ old.query_text = row.query_text}
       IN IF same = {}
          THEN /\ search_queries' = search_queries \cup {row}
               /\ nextQueryId' = nextQueryId + 1
               /\ req' = [req EXCEPT ![r].pc = "retrieve", ![r].queryRecord = row,
                                      ![r].steps = Append(@, "QueryPersisted")]
          ELSE /\ UNCHANGED <<search_queries, nextQueryId>>
               /\ req' = [req EXCEPT ![r].pc = "retrieve",
                                      ![r].queryRecord = CHOOSE old \in same : TRUE,
                                      ![r].steps = Append(@, "QueryPersisted")]
    /\ calls' = [calls EXCEPT ![r].retrieve = @ + 1]
    /\ UNCHANGED <<knowledge_base, search_results, geminiApiKey, fnVars, clientVars>>

\* lines 28-50: the insert answers with the new row, and the retrieval is sent
QueryInserted(r) ==
    /\ req[r].pc = "insertQuery"
    /\ LET row == QueryRow(nextQueryId, req[r].query, req[r].userId) IN
        /\ search_queries' = search_queries \cup {row}
        /\ nextQueryId' = nextQueryId + 1
        /\ req' = [req EXCEPT ![r].pc = "retrieve", ![r].queryRecord = row,
                               ![r].steps = Append(@, "QueryPersisted")]
    /\ calls' = [calls EXCEPT ![r].retrieve = @ + 1]
    /\ UNCHANGED <<knowledge_base, search_results, geminiApiKey, fnVars, clientVars>>

\* QueryInsertFailed without the throw of line 41
QueryInsertFailedNoThrow(r) ==
    /\ req[r].pc = "insertQuery"
    /\ req' = [req EXCEPT ![r].pc = "retrieve", ![r].queryError = TRUE]
    /\ calls' = [calls EXCEPT ![r].retrieve = @ + 1]
    /\ UNCHANGED <<storeVars, fnVars, clientVars>>

\* lines 39-42, 140-148: the insert answers with an error, which is thrown
QueryInsertFailed(r) ==
    /\ req[r].pc = "insertQuery"
    /\ req' = [req EXCEPT ![r].pc = "failed", ![r].queryError = TRUE,
                           ![r].steps = Append(@, "Failed"),
                           ![r].response = ErrorResponse(MsgQueryError)]
    /\ UNCHANGED <<storeVars, calls, fnVars, clientVars>>

\* AfterRetrieval with the score computed before the prompt is built
AfterRetrievalScoresFirst(r, knowledgeResults, failed) ==
    LET contextData == contextDataOf(knowledgeResults) IN
    IF ~geminiApiKey
    THEN /\ req' = [req EXCEPT ![r].pc = "failed",
                               ![r].knowledgeResults = knowledgeResults,
                               ![r].retrievalError = failed,
                               ![r].contextData = contextData,
                               ![r].steps = @ \o <<"Retrieved", "Scored", "Failed">>,
                               ![r].response = ErrorResponse(MsgNoApiKey)]
         /\ UNCHANGED calls
    ELSE /\ req' = [req EXCEPT ![r].pc = "model",
                               ![r].knowledgeResults = knowledgeResults,
                               ![r].retrievalError = failed,
                               ![r].contextData = contextData,
                               ![r].steps = @ \o <<"Retrieved", "Scored", "PromptBuilt",
                                                   "ModelInvoked">>,
                               ![r].prompt = [query |-> req[r].query,
                                              context |-> contextData]]
         /\ calls' = [calls EXCEPT ![r].model = @ + 1]

\* lines 52-100: contextData, the key check, the prompt and the fetch
AfterRetrieval(r, knowledgeResults, failed) ==
    LET contextData == contextDataOf(knowledgeResults) IN
    IF ~geminiApiKey
    THEN /\ req' = [req EXCEPT ![r].pc = "failed",
                               ![r].knowledgeResults = knowledgeResults,
                               ![r].retrievalError = failed,
                               ![r].contextData = contextData,
                               ![r].steps = @ \o <<"Retrieved", "Failed">>,
                               ![r].response = ErrorResponse(MsgNoApiKey)]
         /\ UNCHANGED calls
    ELSE /\ req' = [req EXCEPT ![r].pc = "model",
                               ![r].knowledgeResults = knowledgeResults,
                               ![r].retrievalError = failed,
                               ![r].contextData = contextData,
                               ![r].steps = @ \o <<"Retrieved", "PromptBuilt",
                                                   "ModelInvoked">>,
                               ![r].prompt = [query |-> req[r].query,
                                              context |-> contextData]]
         /\ calls' = [calls EXCEPT ![r].model = @ + 1]

\* lines 45-50: the retrieval answers with rows
Retrieved(r, knowledgeResults) ==
    /\ req[r].pc = "retrieve"
    /\ req[r].userId # undefined
    /\ knowledgeResults \in SearchOutcomes(req[r].userId)
    /\ AfterRetrieval(r, knowledgeResults, FALSE)
    /\ UNCHANGED <<storeVars, fnVars, clientVars>>

\* RetrievalFailed with the error of the retrieval read and thrown
RetrievalFailedThrows(r) ==
    /\ req[r].pc = "retrieve"
    /\ req' = [req EXCEPT ![r].pc = "failed", ![r].retrievalError = TRUE,
                           ![r].response = ErrorResponse("retrieval error")]
    /\ UNCHANGED <<storeVars, calls, fnVars, clientVars>>

\* lines 45-58: the retrieval answers with an error ({ data: null }), as it
\* always does when user_id is compared with no uuid; the error is not read
RetrievalFailed(r) ==
    /\ req[r].pc = "retrieve"
    /\ AfterRetrieval(r, <<>>, TRUE)
    /\ UNCHANGED <<storeVars, fnVars, clientVars>>

\* ResultRow with query_id taken from the newest row of search_queries
ResultRowLatestQuery(r, aiResponse, processingTime) ==
    [query_id |-> nextQueryId - 1,
     ai_response |-> aiResponse,
     knowledge_matches |-> req[r].contextData,
     fragments |-> extractFragments(req[r].query),
     confidence_score |->
        numeric_3_2(calculateConfidenceScore(req[r].query, req[r].contextData)),
     processing_time_ms |-> processingTime]

\* the payload of the insert into search_results, lines 116-125
ResultRow(r, aiResponse, processingTime) ==
    [query_id |-> req[r].queryRecord.id,
     ai_response |-> aiResponse,
     knowledge_matches |-> req[r].contextData,
     fragments |-> extractFragments(req[r].query),
     confidence_score |->
        numeric_3_2(calculateConfidenceScore(req[r].query, req[r].contextData)),
     processing_time_ms |-> processingTime]

\* lines 108-125: the model answers 2xx; the score is computed for the payload
\* of the insert into search_results, which is sent
ModelAnswered(r, status, text, processingTime) ==
    /\ req[r].pc = "model"
    /\ status \in ModelOkStatuses
    /\ LET aiResponse == IF text = <<>> THEN NoResponseGenerated ELSE text IN
        req' = [req EXCEPT ![r].pc = "insertResult",
                           ![r].geminiStatus = status,
                           ![r].aiResponse = aiResponse,
                           ![r].processingTime = processingTime,
                           ![r].steps = Append(@, "Scored"),
                           ![r].resultRow = ResultRow(r, aiResponse, processingTime)]
    /\ calls' = [calls EXCEPT ![r].insertResult = @ + 1]
    /\ UNCHANGED <<storeVars, fnVars, clientVars>>

\* ModelFailed without the check of geminiResponse.ok
ModelFailedNoThrow(r, status) ==
    /\ req[r].pc = "model"
    /\ status \in ModelErrorStatuses
    /\ req' = [req EXCEPT ![r].pc = "insertResult",
                           ![r].geminiStatus = status,
                           ![r].aiResponse = NoResponseGenerated,
                           ![r].resultRow = ResultRow(r, NoResponseGenerated, 0)]
    /\ calls' = [calls EXCEPT ![r].insertResult = @ + 1]
    /\ UNCHANGED <<storeVars, fnVars, clientVars>>

\* ModelFailed with the fetch sent again, up to three times
ModelFailedRetries(r, status) ==
    /\ req[r].pc = "model"
    /\ status \in ModelErrorStatuses
    /\ IF calls[r].model < 3
       THEN /\ req' = [req EXCEPT ![r].geminiStatus = status]
            /\ calls' = [calls EXCEPT ![r].model = @ + 1]
       ELSE /\ req' = [req EXCEPT ![r].pc = "failed", ![r].geminiStatus = status,
                                   ![r].steps = Append(@, "Failed"),
                                   ![r].response = ErrorResponse(MsgGeminiError)]
            /\ UNCHANGED calls
    /\ UNCHANGED <<storeVars, fnVars, clientVars>>

\* lines 102-106, 140-148: the model answers non-2xx, which is thrown
ModelFailed(r, status) ==
    /\ req[r].pc = "model"
    /\ status \in ModelErrorStatuses
    /\ req' = [req EXCEPT ![r].pc = "failed", ![r].geminiStatus = status,
                           ![r].steps = Append(@, "Failed"),
                           ![r].response = ErrorResponse(MsgGeminiError)]
    /\ UNCHANGED <<storeVars, calls, fnVars, clientVars>>

\* SuccessResponse with queryId taken from the newest row of search_queries
SuccessResponseLatestQuery(r) ==
    [NoResponse EXCEPT !.status = STATUS_OK,
                       !.response = req[r].aiResponse,
                       !.knowledgeMatches = req[r].contextData,
                       !.processingTime = req[r].processingTime,
                       !.queryId = nextQueryId - 1]

\* lines 131-138: the success Response
SuccessResponse(r) ==
    [NoResponse EXCEPT !.status = STATUS_OK,
                       !.response = req[r].aiResponse,
                       !.knowledgeMatches = req[r].contextData,
                       !.processingTime = req[r].processingTime,
                       !.queryId = req[r].queryRecord.id]

\* lines 114-138: the insert into search_results is done; the Response is returned
ResultInserted(r) ==
    /\ req[r].pc = "insertResult"
    /\ search_results' = search_results (+) SetToBag({req[r].resultRow})
    /\ req' = [req EXCEPT ![r].pc = "responded",
                           ![r].steps = @ \o <<"ResultPersisted", "Responded">>,
                           ![r].response = SuccessResponse(r)]
    /\ UNCHANGED <<knowledge_base, search_queries, geminiApiKey, nextQueryId, calls, fnVars, clientVars>>

\* ResultInsertFailed with resultError thrown as queryError is
ResultInsertFailedThrows(r) ==
    /\ req[r].pc = "insertResult"
    /\ req' = [req EXCEPT ![r].pc = "failed", ![r].resultError = TRUE,
                           ![r].response = ErrorResponse("resultError")]
    /\ UNCHANGED <<storeVars, calls, fnVars, clientVars>>

\* lines 127-138: the insert answers with an error, which is only logged
ResultInsertFailed(r) ==
    /\ req[r].pc = "insertResult"
    /\ req' = [req EXCEPT ![r].pc = "responded", ![r].resultError = TRUE,
                           ![r].steps = Append(@, "Responded"),
                           ![r].response = SuccessResponse(r)]
    /\ UNCHANGED <<storeVars, calls, fnVars, clientVars>>

\* the steps of the invocations that have read their request
Served ==
    \/ \E r \in Reqs : QueryInserted(r)
    \/ \E r \in Reqs : QueryInsertFailed(r)
    \/ \E r \in Reqs : \E knowledgeResults \in SearchOutcomes(req[r].userId) :
            Retrieved(r, knowledgeResults)
    \/ \E r \in Reqs : RetrievalFailed(r)
    \/ \E r \in Reqs, status \in ModelOkStatuses, text \in ModelTexts,
          processingTime \in ProcessingTimes :
            ModelAnswered(r, status, text, processingTime)
    \/ \E r \in Reqs, status \in ModelErrorStatuses : ModelFailed(r, status)
    \/ \E r \in Reqs : ResultInserted(r)
    \/ \E r \in Reqs : ResultInsertFailed(r)

Next ==
    \/ \E r \in Reqs, body \in RequestBodies : Receive(r, body.query, body.userId)
    \/ Served

Spec == Init /\ [][Next]_vars

\* The function is called over HTTP with any body: the userId of the body
\* need not be the user the sender is signed in as.
IsolationNext ==
    \/ \E r \in Reqs, caller \in Users, body \in RequestBodies :
            /\ body.userId \in Users
            /\ ReceiveFrom(r, caller, body.query, body.userId)
    \/ Served

IsolationSpec == Init /\ [][IsolationNext]_vars

\* a knowledge base in which u1 owns more rows than the retrieval returns
LargeKnowledge ==
    [i \in 1..MaxOwned |->
        [id |-> 200 + i, user_id |-> "u1", title |-> <<"a">>, content |-> <<"a">>,
         tags |-> <<>>, created_at |-> i]]
    \o << [id |-> 102, user_id |-> "u2", title |-> <<"Q">>, content |-> <<"a">>,
           tags |-> <<>>, created_at |-> 2] >>

LimitInit ==
    /\ knowledge_base = LargeKnowledge
    /\ search_queries = {}
    /\ search_results = EmptyBag
    /\ geminiApiKey \in BOOLEAN
    /\ nextQueryId = 1
    /\ req = [r \in Reqs |-> IdleReq]
    /\ calls = [r \in Reqs |-> NoCalls]
    /\ FnIdle
    /\ ClientIdle

\* one invocation of the handler
ServedOne(r) ==
    \/ QueryInserted(r)
    \/ QueryInsertFailed(r)
    \/ \E knowledgeResults \in SearchOutcomes(req[r].userId) :
            Retrieved(r, knowledgeResults)
    \/ RetrievalFailed(r)
    \/ \E status \in ModelOkStatuses, text \in ModelTexts,
          processingTime \in ProcessingTimes :
            ModelAnswered(r, status, text, processingTime)
    \/ \E status \in ModelErrorStatuses : ModelFailed(r, status)
    \/ ResultInserted(r)
    \/ ResultInsertFailed(r)

\* a single request against the large knowledge base
LimitNext ==
    \/ \E body \in RequestBodies : Receive(1, body.query, body.userId)
    \/ ServedOne(1)

LimitSpec == LimitInit /\ [][LimitNext]_vars

(***************************************************************************)
(* The helpers applied to every argument within the bounds.                *)
(***************************************************************************)
\* every string of at most n characters of the alphabet
StringsUpTo(alphabet, n) == UNION {[1..k -> alphabet] : k \in 0..n}

\* every sequence of at most n elements of the set
SeqsUpTo(set, n) == UNION {[1..k -> set] : k \in 0..n}

\* the handler at rest
HandlerAtRest ==
    /\ knowledge_base = InitialKnowledge
    /\ search_queries = {}
    /\ search_results = EmptyBag
    /\ geminiApiKey = TRUE
    /\ nextQueryId = 1
    /\ req = [r \in Reqs |-> IdleReq]
    /\ calls = [r \in Reqs |-> NoCalls]
    /\ ClientIdle

FragmentAlphabet == {"a", "B", " ", ",", ";"}

FragmentsInit ==
    /\ HandlerAtRest
    /\ fnQuery \in StringsUpTo(FragmentAlphabet, MaxLen)
    /\ fnItems = <<>>
    /\ fnOut = <<>>
    /\ fnDone = FALSE

\* fnOut = extractFragments(fnQuery)
ApplyExtractFragments ==
    /\ ~fnDone
    /\ fnOut' = extractFragments(fnQuery)
    /\ fnDone' = TRUE
    /\ UNCHANGED <<storeVars, handlerVars, fnQuery, fnItems, clientVars>>

FragmentsNext == ApplyExtractFragments

FragmentsSpec == FragmentsInit /\ [][FragmentsNext]_vars

ScoreAlphabet == {"a", "B", " "}

\* contextData elements: what the scorer reads of them is title and content
ScoreItems ==
    { [title |-> <<"A">>, content |-> <<"b">>, tags |-> <<>>, created_at |-> 1],
      [title |-> <<"c">>, content |-> <<>>, tags |-> <<>>, created_at |-> 2],
      [title |-> <<"b">>, content |-> <<"a", "b">>, tags |-> <<>>, created_at |-> 3] }

\* "marketing presentation"
MarketingQuery ==
    <<"m", "a", "r", "k", "e", "t", "i", "n", "g", " ",
      "p", "r", "e", "s", "e", "n", "t", "a", "t", "i", "o", "n">>

\* { title: "Q3 Marketing Deck", content: "presentation about marketing strategy" }
MarketingItem ==
    [title |-> <<"Q", "3", " ", "M", "a", "r", "k", "e", "t", "i", "n", "g", " ",
                 "D", "e", "c", "k">>,
     content |-> <<"p", "r", "e", "s", "e", "n", "t", "a", "t", "i", "o", "n", " ",
                   "a", "b", "o", "u", "t", " ",
                   "m", "a", "r", "k", "e", "t", "i", "n", "g", " ",
                   "s", "t", "r", "a", "t", "e", "g", "y">>,
     tags |-> <<>>, created_at |-> 1]

ScoreInit ==
    /\ HandlerAtRest
    /\ \/ /\ fnQuery \in StringsUpTo(ScoreAlphabet, MaxQueryLen)
          /\ fnItems \in SeqsUpTo(ScoreItems, MaxItems)
       \/ /\ fnQuery = MarketingQuery
          /\ fnItems = <<MarketingItem>>
    /\ fnOut = Frac(0, 1)
    /\ fnDone = FALSE

\* fnOut = calculateConfidenceScore(fnQuery, fnItems)
ApplyCalculateConfidenceScore ==
    /\ ~fnDone
    /\ fnOut' = calculateConfidenceScore(fnQuery, fnItems)
    /\ fnDone' = TRUE
    /\ UNCHANGED <<storeVars, handlerVars, fnQuery, fnItems, clientVars>>

ScoreNext == ApplyCalculateConfidenceScore

ScoreSpec == ScoreInit /\ [][ScoreNext]_vars

(***************************************************************************)
(* The claims about the handler, checked under Spec.                       *)
(***************************************************************************)
\* the kind of failure an error message of the handler stands for
FailureKind(message) ==
    CASE message = MsgQueryError -> "StorageError"
      [] message \in {MsgNoApiKey, MsgGeminiError} -> "ModelUnavailable"
      [] OTHER -> "Other"

\* the rows of search_results that reference the query row with this id
ResultsOf(id) == {row \in BagToSet(search_results) : row.query_id = id}

\* the invocation has ended with the error Response of this kind
FailedAs(r, kind) ==
    /\ req[r].pc = "failed"
    /\ req[r].response.status = STATUS_ERROR
    /\ FailureKind(req[r].response.error) = kind

\* C1: a request whose query is the empty string ends in failure InvalidInput
\* and writes no row to search_queries.
C1_EmptyQueryRejected ==
    \A r \in Reqs :
        (req[r].pc # "idle" /\ req[r].query = <<>>) =>
            /\ req[r].queryRecord = NoRecord
            /\ \A row \in search_queries : row.query_text # <<>>
            /\ req[r].pc \in {"failed", "responded"} => FailedAs(r, "InvalidInput")

\* C2: a request without userId ends in failure Unauthenticated and has no
\* side effect: no search_queries row, no retrieval, no model call, no
\* search_results row.
C2_MissingUserRejected ==
    \A r \in Reqs :
        (req[r].pc # "idle" /\ req[r].userId = undefined) =>
            /\ req[r].queryRecord = NoRecord
            /\ \A row \in search_queries : row.user_id # NULL
            /\ calls[r].retrieve = 0
            /\ calls[r].model = 0
            /\ calls[r].insertResult = 0
            /\ req[r].pc \in {"failed", "responded"} => FailedAs(r, "Unauthenticated")

\* C3: when the insert into search_queries fails, the request ends in the
\* error Response (StorageError), and no retrieval, no model call and no
\* insert into search_results is made for it.
C3_QueryWriteFailureAborts ==
    \A r \in Reqs :
        req[r].queryError =>
            /\ FailedAs(r, "StorageError")
            /\ req[r].queryRecord = NoRecord
            /\ calls[r].retrieve = 0
            /\ calls[r].model = 0
            /\ calls[r].insertResult = 0
            /\ req[r].resultRow = NoResult

C3_Witness ==
    \E r \in Reqs :
        /\ req[r].queryError
        /\ req[r].pc = "failed"
        /\ req[r].query # <<>>
        /\ \E other \in Reqs : req[other].pc = "responded"

\* C4: when the retrieval fails, the request does not fail for it:
\* contextData is empty, the model is called with an empty context whenever
\* the key is configured, the confidence put in the result row is 0.3, and
\* the Response is the success Response with the model's answer and no
\* knowledgeMatches.  The only failures left are those of the model.
C4_RetrievalFailureDegrades ==
    \A r \in Reqs :
        req[r].retrievalError =>
            /\ req[r].contextData = <<>>
            /\ req[r].pc \in {"model", "insertResult", "responded", "failed"}
            /\ geminiApiKey => (calls[r].model = 1 /\ req[r].prompt.context = <<>>)
            /\ req[r].pc = "failed" => FailedAs(r, "ModelUnavailable")
            /\ req[r].geminiStatus \in ModelOkStatuses =>
                /\ req[r].pc \in {"insertResult", "responded"}
                /\ req[r].resultRow.knowledge_matches = <<>>
                /\ req[r].resultRow.confidence_score = 30
                /\ req[r].resultRow.ai_response = req[r].aiResponse
            /\ req[r].pc = "responded" =>
                /\ req[r].response.status = STATUS_OK
                /\ req[r].response.knowledgeMatches = <<>>
                /\ req[r].response.response = req[r].aiResponse
                /\ \A row \in ResultsOf(req[r].queryRecord.id) :
                        row.confidence_score = 30 /\ row.knowledge_matches = <<>>

C4_Witness ==
    \E r \in Reqs :
        /\ req[r].retrievalError
        /\ req[r].userId \in Users
        /\ req[r].pc = "responded"
        /\ req[r].response.status = STATUS_OK
        /\ req[r].response.response = <<"o", "k">>
        /\ \E row \in ResultsOf(req[r].queryRecord.id) : row.confidence_score = 30

\* the request has failed as ModelUnavailable, its query row is in
\* search_queries and no search_results row references it
ModelUnavailableOutcome(r) ==
    /\ FailedAs(r, "ModelUnavailable")
    /\ req[r].queryRecord # NoRecord
    /\ req[r].queryRecord \in search_queries
    /\ ResultsOf(req[r].queryRecord.id) = {}
    /\ calls[r].insertResult = 0

\* C5: when the model answers non-2xx, or the key is missing once the
\* retrieval has answered, the request ends in the error Response
\* (ModelUnavailable); its search_queries row exists and no search_results row
\* references it.
C5_ModelFailureKeepsQueryRow ==
    \A r \in Reqs :
        /\ (req[r].geminiStatus # 0 /\ req[r].geminiStatus \notin ModelOkStatuses) =>
                ModelUnavailableOutcome(r)
        /\ (~geminiApiKey /\ req[r].queryRecord # NoRecord /\ req[r].pc # "retrieve") =>
                ModelUnavailableOutcome(r)

C5_Witness ==
    \E r \in Reqs :
        /\ req[r].geminiStatus \in ModelErrorStatuses
        /\ req[r].pc = "failed"
        /\ req[r].contextData # <<>>
        /\ req[r].queryRecord \in search_queries
        /\ \E other \in Reqs : other # r /\ ResultsOf(req[other].queryRecord.id) # {}

\* C6: when the insert into search_results fails after the model has
\* answered, the Response is the success Response with the answer, the
\* knowledgeMatches, the processingTime and the queryId; no error is surfaced.
C6_ResultWriteFailureSwallowed ==
    \A r \in Reqs :
        req[r].resultError =>
            /\ req[r].pc = "responded"
            /\ req[r].geminiStatus \in ModelOkStatuses
            /\ req[r].response =
                  [status |-> STATUS_OK, error |-> "",
                   response |-> req[r].aiResponse,
                   knowledgeMatches |-> req[r].contextData,
                   processingTime |-> req[r].processingTime,
                   queryId |-> req[r].queryRecord.id]
            /\ req[r].queryRecord \in search_queries
            /\ req[r].processingTime \in ProcessingTimes

C6_Witness ==
    \E r \in Reqs :
        /\ req[r].resultError
        /\ req[r].pc = "responded"
        /\ req[r].response.status = STATUS_OK
        /\ req[r].response.knowledgeMatches # <<>>
        /\ ResultsOf(req[r].queryRecord.id) = {}

(***************************************************************************)
(* The claims about calculateConfidenceScore, checked under ScoreSpec.     *)
(***************************************************************************)
\* C7: calculateConfidenceScore returns exactly 0.3 for an empty sequence of
\* items, and for a non-empty one divides by a positive number of words and
\* returns a value in [0.1, 0.95].
C7_ScoreRange ==
    fnDone =>
        /\ fnOut.d > 0
        /\ Len(fnItems) = 0 => (fnOut.n = 3 /\ fnOut.d = 10)
        /\ Len(fnItems) > 0 =>
            /\ totalWords(fnQuery, fnItems) > 0
            /\ FracLeq(Frac(1, 10), fnOut)
            /\ FracLeq(fnOut, Frac(95, 100))

C7_Witness ==
    /\ fnDone
    /\ Len(fnItems) = MaxItems
    /\ fnQuery = <<"B", " ", "a">>
    /\ FracLess(Frac(1, 10), fnOut)
    /\ FracLess(fnOut, Frac(95, 100))

\* the words of a string: its maximal runs of characters that are no white
\* space, as pairs <<first, last>> of positions
WordSpans(s) ==
    { span \in (1..Len(s)) \X (1..Len(s)) :
        /\ span[1] <= span[2]
        /\ \A k \in span[1]..span[2] : s[k] \notin Whitespace
        /\ span[1] = 1 \/ s[span[1] - 1] \in Whitespace
        /\ span[2] = Len(s) \/ s[span[2] + 1] \in Whitespace }

\* W: the number of whitespace-separated words of the lowercased query
W(query) == Cardinality(WordSpans(toLowerCase(query)))

\* the number of words of the query that are substrings of the lowercased
\* title + ' ' + content of the item
WordMatches(query, item) ==
    Cardinality({ span \in WordSpans(toLowerCase(query)) :
        includes(toLowerCase(item.title \o <<" ">> \o item.content),
                 SubSeq(toLowerCase(query), span[1], span[2])) })

\* M: the sum of WordMatches over the items
RECURSIVE M(_, _)
M(query, items) ==
    IF items = <<>> THEN 0 ELSE WordMatches(query, Head(items)) + M(query, Tail(items))

\* min(0.95, max(0.1, m / wn))
Clamped(m, wn) ==
    IF 10 * m < wn THEN Frac(1, 10)
    ELSE IF 100 * m > 95 * wn THEN Frac(95, 100)
    ELSE Frac(m, wn)

\* C8: for a non-empty sequence of items (and a query that has a word),
\* calculateConfidenceScore equals min(0.95, max(0.1, M / (W * N))); the
\* marketing example gives 0.95.
C8_ScoreFormula ==
    (fnDone /\ Len(fnItems) > 0 /\ W(fnQuery) > 0) =>
        /\ FracEq(fnOut, Clamped(M(fnQuery, fnItems), W(fnQuery) * Len(fnItems)))
        /\ fnQuery = MarketingQuery => FracEq(fnOut, Frac(95, 100))

(***************************************************************************)
(* The claims about extractFragments, checked under FragmentsSpec.         *)
(***************************************************************************)
HasSeparator(query) == \E i \in 1..Len(query) : query[i] \in Separators

\* C9: for a non-empty query without comma or semicolon, extractFragments
\* returns the one-element sequence of the trimmed, lowercased query.
C9_SinglePhraseNormalised ==
    (fnDone /\ fnQuery # <<>> /\ ~HasSeparator(fnQuery)) =>
        fnOut = <<trim(toLowerCase(fnQuery))>>

\* the parts of a query: what lies before, between and after its commas and
\* semicolons
RECURSIVE PartsFrom(_, _, _)
PartsFrom(query, i, part) ==
    IF i > Len(query) THEN <<part>>
    ELSE IF query[i] \in Separators THEN <<part>> \o PartsFrom(query, i + 1, <<>>)
    ELSE PartsFrom(query, i + 1, Append(part, query[i]))

\* removes the white space at both ends of a part
RECURSIVE Stripped(_)
Stripped(part) ==
    IF part = <<>> THEN part
    ELSE IF Head(part) \in Whitespace THEN Stripped(Tail(part))
    ELSE IF part[Len(part)] \in Whitespace THEN Stripped(SubSeq(part, 1, Len(part) - 1))
    ELSE part

\* the parts trimmed and lowercased, the empty ones dropped, in their order
NonEmptyParts(query) ==
    SelectSeq([i \in 1..Len(PartsFrom(query, 1, <<>>)) |->
                  [k \in 1..Len(Stripped(PartsFrom(query, 1, <<>>)[i])) |->
                      LowerChar(Stripped(PartsFrom(query, 1, <<>>)[i])[k])]],
              LAMBDA part : part # <<>>)

\* C10: for a query with commas or semicolons and at least two non-empty
\* parts, extractFragments returns exactly those parts, trimmed and
\* lowercased, the empty ones dropped, in their original order.
C10_MultiPartFragments ==
    (fnDone /\ HasSeparator(fnQuery) /\ Len(NonEmptyParts(fnQuery)) >= 2) =>
        fnOut = NonEmptyParts(fnQuery)

C10_Witness ==
    /\ fnDone
    /\ fnQuery = <<"a", ";", " ", "B">>
    /\ fnOut = << <<"a">>, <<"b">> >>

\* C11: for a non-empty query whose split leaves a single non-empty piece,
\* extractFragments returns the one-element sequence of the original query,
\* unchanged; for no non-empty query does it return the empty sequence.
C11_SinglePieceReturnsQuery ==
    (fnDone /\ fnQuery # <<>>) =>
        /\ fnOut # <<>>
        /\ Len(NonEmptyParts(fnQuery)) = 1 => fnOut = <<fnQuery>>

C11_Witness ==
    /\ fnDone
    /\ fnQuery = <<";", " ", "B", ",">>
    /\ NonEmptyParts(fnQuery) = << <<"b">> >>
    /\ fnOut = << <<";", " ", "B", ",">> >>

(***************************************************************************)
(* Owner isolation, checked under IsolationSpec.                           *)
(***************************************************************************)
\* what a match shows of a knowledge_base row
Snapshot(item) ==
    [title |-> item.title, content |-> item.content, tags |-> item.tags,
     created_at |-> item.created_at]

\* the snapshots of the knowledge_base rows that belong to somebody else
ForeignSnapshots(owner) ==
    { Snapshot(knowledge_base[i]) :
        i \in { k \in 1..Len(knowledge_base) : knowledge_base[k].user_id # owner } }

\* no element of the sequence shows a row of somebody else
NothingForeign(owner, matches) ==
    \A i \in 1..Len(matches) : matches[i] \notin ForeignSnapshots(owner)

\* C12: no knowledge item of another owner than the caller appears in the
\* caller's knowledgeMatches, in the prompt or in the search_results row, and
\* the search_queries row written is owned by the caller.
C12_OwnerIsolation ==
    \A r \in Reqs :
        req[r].caller \in Users =>
            /\ NothingForeign(req[r].caller, req[r].response.knowledgeMatches)
            /\ NothingForeign(req[r].caller, req[r].prompt.context)
            /\ NothingForeign(req[r].caller, req[r].resultRow.knowledge_matches)
            /\ req[r].queryRecord # NoRecord => req[r].queryRecord.user_id = req[r].caller

(***************************************************************************)
(* The limit of the retrieval, checked under LimitSpec.                    *)
(***************************************************************************)
\* C13: every Response and every search_results row holds at most 5
\* knowledge matches, however many rows of the owner match.
C13_AtMostFiveMatches ==
    /\ \A r \in Reqs :
        /\ Len(req[r].response.knowledgeMatches) <= 5
        /\ Len(req[r].resultRow.knowledge_matches) <= 5
        /\ Len(req[r].prompt.context) <= 5
    /\ \A row \in BagToSet(search_results) : Len(row.knowledge_matches) <= 5

C13_Witness ==
    \E r \in Reqs :
        /\ req[r].pc = "responded"
        /\ Len(OwnedBy(req[r].userId)) > 5
        /\ Len(req[r].response.knowledgeMatches) = 5
        /\ req[r].response.knowledgeMatches[5].created_at = MaxOwned
        /\ \E row \in ResultsOf(req[r].queryRecord.id) : Len(row.knowledge_matches) = 5

(***************************************************************************)
(* The rows of the two tables and the calls of a request, checked under    *)
(* Spec.                                                                   *)
(***************************************************************************)
\* the requests whose insert into search_results was done with this row
WritersOf(row) ==
    {r \in Reqs : req[r].pc = "responded" /\ ~req[r].resultError /\ req[r].resultRow = row}

\* C14: after any interleaving of successful and failed requests, every
\* search_results row references exactly one search_queries row that
\* exists, the row written by the request that wrote the result.
C14_ResultReferencesOwnQuery ==
    \A row \in BagToSet(search_results) :
        /\ Cardinality({q \in search_queries : q.id = row.query_id}) = 1
        /\ Cardinality(WritersOf(row)) = CopiesIn(row, search_results)
        /\ \A r \in WritersOf(row) :
            /\ req[r].queryRecord \in search_queries
            /\ req[r].queryRecord.id = row.query_id
            /\ req[r].queryRecord.query_text = req[r].query
            /\ \A other \in Reqs \ {r} : req[other].queryRecord.id # row.query_id

C14_Witness ==
    \E r1, r2 \in Reqs :
        /\ req[r1].pc = "responded"
        /\ ~req[r1].resultError
        /\ req[r1].queryRecord.id = 2
        /\ ResultsOf(2) = {req[r1].resultRow}
        /\ req[r2].pc = "failed"
        /\ req[r2].queryRecord.id = 1
        /\ ResultsOf(1) = {}

\* C15: the same query text submitted twice by the same owner, both
\* successfully, gives two distinct search_queries rows and two distinct
\* search_results rows, each result linked to its own query, and the model
\* is called for each of the two requests.
C15_NoDeduplication ==
    \A r1, r2 \in Reqs :
        ( /\ r1 # r2
          /\ req[r1].pc = "responded" /\ ~req[r1].resultError
          /\ req[r2].pc = "responded" /\ ~req[r2].resultError
          /\ req[r1].userId # undefined
          /\ req[r1].userId = req[r2].userId
          /\ req[r1].query = req[r2].query ) =>
            /\ req[r1].queryRecord # req[r2].queryRecord
            /\ req[r1].queryRecord.id # req[r2].queryRecord.id
            /\ {req[r1].queryRecord, req[r2].queryRecord} \subseteq search_queries
            /\ Cardinality({q \in search_queries :
                    q.user_id = req[r1].userId /\ q.query_text = req[r1].query}) >= 2
            /\ req[r1].resultRow # req[r2].resultRow
            /\ ResultsOf(req[r1].queryRecord.id) = {req[r1].resultRow}
            /\ ResultsOf(req[r2].queryRecord.id) = {req[r2].resultRow}
            /\ BagCardinality(search_results) >= 2
            /\ calls[r1].model = 1
            /\ calls[r2].model = 1

C15_Witness ==
    /\ req[1].pc = "responded" /\ ~req[1].resultError
    /\ req[2].pc = "responded" /\ ~req[2].resultError
    /\ req[1].userId = "u1" /\ req[2].userId = "u1"
    /\ req[1].query = req[2].query
    /\ req[1].query # <<>>
    /\ req[1].response.response = req[2].response.response
    /\ req[1].response.queryId # req[2].response.queryId
    /\ BagCardinality(search_results) = 2

\* the calls a request at this point of the handler has sent
CallsSent(r) ==
    CASE req[r].pc = "idle" -> NoCalls
      [] req[r].pc = "insertQuery" ->
            [insertQuery |-> 1, retrieve |-> 0, model |-> 0, insertResult |-> 0]
      [] req[r].pc = "retrieve" ->
            [insertQuery |-> 1, retrieve |-> 1, model |-> 0, insertResult |-> 0]
      [] req[r].pc = "model" ->
            [insertQuery |-> 1, retrieve |-> 1, model |-> 1, insertResult |-> 0]
      [] req[r].pc \in {"insertResult", "responded"} ->
            [insertQuery |-> 1, retrieve |-> 1, model |-> 1, insertResult |-> 1]
      [] req[r].pc = "failed" ->
            [insertQuery |-> 1,
             retrieve |-> IF req[r].queryError THEN 0 ELSE 1,
             model |-> IF req[r].geminiStatus # 0 THEN 1 ELSE 0,
             insertResult |-> 0]

\* C16: within one request each of the four external calls is sent once:
\* none is repeated after a failure and none is sent twice.
C16_EachCallOnce ==
    \A r \in Reqs :
        /\ calls[r] = CallsSent(r)
        /\ \A call \in DOMAIN calls[r] : calls[r][call] <= 1
        /\ req[r].pc = "responded" => \A call \in DOMAIN calls[r] : calls[r][call] = 1

C16_Witness ==
    \E r1, r2 \in Reqs :
        /\ req[r1].pc = "failed"
        /\ req[r1].geminiStatus \in ModelErrorStatuses
        /\ calls[r1] = [insertQuery |-> 1, retrieve |-> 1, model |-> 1, insertResult |-> 0]
        /\ req[r2].pc = "responded"
        /\ req[r2].resultError
        /\ calls[r2] = [insertQuery |-> 1, retrieve |-> 1, model |-> 1, insertResult |-> 1]

\* the snapshots of the rows the retrieval of this request returned
RetrievedSnapshots(r) ==
    [i \in 1..Len(req[r].knowledgeResults) |-> Snapshot(req[r].knowledgeResults[i])]

\* C17: a successful Response returns the queryId of the search_queries row
\* this request created, and knowledgeMatches equal to the projections
\* {title, content, tags, created_at} of the retrieved items, the sequence
\* put in the prompt and stored in the search_results row.
C17_ResponseCarriesOwnData ==
    \A r \in Reqs :
        req[r].pc = "responded" =>
            /\ req[r].response.status = STATUS_OK
            /\ req[r].response.queryId = req[r].queryRecord.id
            /\ req[r].queryRecord \in search_queries
            /\ req[r].queryRecord.query_text = req[r].query
            /\ req[r].response.knowledgeMatches = RetrievedSnapshots(r)
            /\ req[r].prompt.context = RetrievedSnapshots(r)
            /\ req[r].resultRow.knowledge_matches = RetrievedSnapshots(r)
            /\ ~req[r].resultError =>
                    \E row \in ResultsOf(req[r].response.queryId) :
                        row.knowledge_matches = req[r].response.knowledgeMatches

C17_Witness ==
    \E r \in Reqs :
        /\ req[r].pc = "responded"
        /\ ~req[r].resultError
        /\ req[r].response.queryId = 2
        /\ Len(req[r].knowledgeResults) = 1
        /\ req[r].knowledgeResults[1].id = 101
        /\ req[r].response.knowledgeMatches =
              << [title |-> <<"a">>, content |-> <<"B", " ", "c">>, tags |-> << <<"t">> >>,
                  created_at |-> 1] >>

\* C18: two requests of one owner, their steps interleaved in any way, each
\* have their own search_queries row, a search_results row that references
\* that row and not the other's, and a Response with their own queryId and
\* matches.
C18_ConcurrentRequestsIndependent ==
    \A r1, r2 \in Reqs :
        ( /\ r1 # r2
          /\ req[r1].userId = req[r2].userId
          /\ req[r1].queryRecord # NoRecord
          /\ req[r2].queryRecord # NoRecord ) =>
            /\ req[r1].queryRecord.id # req[r2].queryRecord.id
            /\ req[r1].queryRecord \in search_queries
            /\ req[r1].resultRow.query_id \in {0, req[r1].queryRecord.id}
            /\ ResultsOf(req[r1].queryRecord.id) \subseteq {req[r1].resultRow}
            /\ req[r1].pc = "responded" =>
                /\ req[r1].response.queryId = req[r1].queryRecord.id
                /\ req[r1].response.queryId # req[r2].queryRecord.id
                /\ req[r1].response.knowledgeMatches = req[r1].contextData
                /\ req[r1].response.response = req[r1].aiResponse

C18_Witness ==
    \E r1, r2 \in Reqs :
        /\ req[r1].userId = "u1" /\ req[r2].userId = "u1"
        /\ req[r1].pc = "responded"
        /\ ~req[r1].resultError
        /\ req[r1].response.queryId = 2
        /\ req[r1].response.knowledgeMatches # <<>>
        /\ req[r2].pc = "model"
        /\ req[r2].queryRecord.id = 1
        /\ req[r2].contextData = <<>>
        /\ ResultsOf(1) = {}

(***************************************************************************)
(* The order of the steps and the end of a request, checked under Spec.    *)
(***************************************************************************)
\* the request has returned the success Response after both inserts were done
Succeeded(r) == req[r].pc = "responded" /\ ~req[r].resultError

\* C19 as stated: in a successful request the confidence is scored after the
\* retrieval and before the prompt is built and the model is called.
C19_ScoredBeforeModel ==
    \A r \in Reqs :
        Succeeded(r) =>
            req[r].steps = <<"QueryPersisted", "Retrieved", "Scored", "PromptBuilt",
                             "ModelInvoked", "ResultPersisted", "Responded">>

\* C19 as the handler runs: query row written, knowledge retrieved, prompt
\* built, model called, confidence scored, result row written, Response
\* returned; the query row is written before any retrieval or model call.
C19_ScoredAfterModel ==
    \A r \in Reqs :
        /\ Succeeded(r) =>
            req[r].steps = <<"QueryPersisted", "Retrieved", "PromptBuilt", "ModelInvoked",
                             "Scored", "ResultPersisted", "Responded">>
        /\ (calls[r].retrieve > 0 \/ calls[r].model > 0) =>
            /\ req[r].queryRecord \in search_queries
            /\ req[r].steps[1] = "QueryPersisted"

C19_Witness ==
    \E r \in Reqs :
        /\ Succeeded(r)
        /\ req[r].contextData # <<>>
        /\ req[r].resultRow.confidence_score # 0
        /\ req[r].steps[5] = "Scored"
        /\ req[r].resultRow \in BagToSet(search_results)

\* a Response with a status that is no 2xx and nothing but the error
IsErrorResponse(response) ==
    /\ response.status \notin (200..299) \cup {0}
    /\ response.error # ""
    /\ response.response = <<>>
    /\ response.knowledgeMatches = <<>>
    /\ response.queryId = 0

\* C20: once a request has failed it sends no further call and writes no
\* row, never reaches Responded, and its Response is the error Response with
\* a non-success status; a request ends as Responded or as Failed, never both.
C20_FailedAbsorbing ==
    [][\A r \in Reqs :
        /\ req[r].pc \in {"failed", "responded"} =>
            /\ req'[r] = req[r]
            /\ calls'[r] = calls[r]
            /\ ResultsOf(req[r].queryRecord.id)' = ResultsOf(req[r].queryRecord.id)
        /\ req'[r].pc = "failed" =>
            /\ IsErrorResponse(req'[r].response)
            /\ calls'[r].insertResult = 0
            /\ ResultsOf(req[r].queryRecord.id)' = {}
            /\ req'[r].steps[Len(req'[r].steps)] = "Failed"
        /\ req'[r].pc = "responded" =>
            /\ ~IsErrorResponse(req'[r].response)
            /\ req'[r].response.status = STATUS_OK
            /\ "Failed" \notin {req'[r].steps[i] : i \in 1..Len(req'[r].steps)}
        /\ req'[r].pc \notin {"failed", "responded"} => req'[r].response = NoResponse
      ]_vars

C20_Witness ==
    \E r1, r2 \in Reqs :
        /\ req[r1].pc = "failed"
        /\ req[r1].response = [NoResponse EXCEPT !.status = 500,
                                                 !.error = MsgGeminiError]
        /\ req[r1].queryRecord.id = 1
        /\ req[r2].pc = "responded"
        /\ req[r2].queryRecord.id = 2
        /\ BagCardinality(search_results) = 1

(***************************************************************************)
(* KnowledgeManager: the component, the knowledge_base table behind its    *)
(* row level security policy, and the session of the browser.              *)
(***************************************************************************)
\* String.prototype.split(','): the pieces before, between and after the commas
RECURSIVE SplitCommaFrom(_, _, _)
SplitCommaFrom(s, i, cur) ==
    IF i > Len(s) THEN <<cur>>
    ELSE IF s[i] = "," THEN <<cur>> \o SplitCommaFrom(s, i + 1, <<>>)
    ELSE SplitCommaFrom(s, i + 1, Append(cur, s[i]))

\* formData.tags.split(',').map(tag => tag.trim()).filter(tag => tag.length > 0)
tagsOf(text) ==
    LET pieces == SplitCommaFrom(text, 1, <<>>) IN
    SelectSeq([i \in 1..Len(pieces) |-> trim(pieces[i])], NonEmptyString)

\* item.tags.join(', ')
RECURSIVE joinTags(_)
joinTags(tags) ==
    IF tags = <<>> THEN <<>>
    ELSE IF Len(tags) = 1 THEN tags[1]
    ELSE tags[1] \o <<",", " ">> \o joinTags(Tail(tags))

RECURSIVE Reverse(_)
Reverse(rows) == IF rows = <<>> THEN <<>> ELSE Reverse(Tail(rows)) \o <<Head(rows)>>

\* the table with row level security switched off
PolicyOff(uid, row) == TRUE

\* "Users can manage their own knowledge base": USING (auth.uid() = user_id),
\* for all commands, for the rows read and for the rows written
PolicyKnowledgeBase(uid, row) == uid # NULL /\ row.user_id = uid

\* .select('*').eq('user_id', user.id).order('created_at', { ascending: false })
\* as the session uid sees the table, whose order is that of created_at
SelectOwn(uid, userId) ==
    Reverse(SelectSeq(knowledge_base,
                      LAMBDA row : PolicyKnowledgeBase(uid, row) /\ row.user_id = userId))

\* .insert(itemData): the new row must pass the policy
InsertItem(uid, itemData) ==
    LET row == [id |-> nextItemId, user_id |-> itemData.user_id, title |-> itemData.title,
                content |-> itemData.content, tags |-> itemData.tags,
                created_at |-> nextItemId - 100]
    IN IF PolicyKnowledgeBase(uid, row) THEN Append(knowledge_base, row) ELSE knowledge_base

\* .update(itemData).eq('id', id): the rows of this id the policy shows are
\* written, when the new row passes the policy too
UpdateItem(uid, id, itemData) ==
    [i \in 1..Len(knowledge_base) |->
        LET old == knowledge_base[i]
            new == [old EXCEPT !.user_id = itemData.user_id, !.title = itemData.title,
                               !.content = itemData.content, !.tags = itemData.tags]
        IN IF old.id = id /\ PolicyKnowledgeBase(uid, old) /\ PolicyKnowledgeBase(uid, new)
           THEN new ELSE old]

\* .delete().eq('id', id): the rows of this id the policy shows are deleted
DeleteItem(uid, id) ==
    SelectSeq(knowledge_base, LAMBDA row : ~(row.id = id /\ PolicyKnowledgeBase(uid, row)))

\* what the user types into the form of the dialog
FormInputs ==
    { [title |-> <<"n">>, content |-> <<" ", "x">>, tags |-> <<"t", ",", " ", ",", "u">>] }

\* the sequence without its i-th element
RemoveAt(seq, i) == SubSeq(seq, 1, i - 1) \o SubSeq(seq, i + 1, Len(seq))

\* loadKnowledgeItems, lines 270-294, applied to the state km of the component
LoadedItems(km, selectFails) ==
    IF authUser = NULL THEN km
    ELSE IF selectFails THEN km
    ELSE [km EXCEPT !.items = SelectOwn(authUser, authUser)]

\* useEffect(() => { loadKnowledgeItems(); }, [])
KnowledgeManagerMount(selectFails) ==
    /\ ~knowledgeManager.loaded
    /\ knowledgeManager' =
          [LoadedItems(knowledgeManager, selectFails) EXCEPT !.loaded = TRUE]
    /\ UNCHANGED <<storeVars, handlerVars, fnVars, authUser, searchInterface, nextItemId>>

\* the session of the supabase client changes: sign out, or sign in as user
SessionChanged(user) ==
    /\ user \in Users \cup {NULL}
    /\ user # authUser
    /\ authUser' = user
    /\ UNCHANGED <<storeVars, handlerVars, fnVars, searchInterface, knowledgeManager,
                   nextItemId>>

\* DialogTrigger "Add Knowledge": onOpenChange(true)
AddKnowledgeClick ==
    /\ ~knowledgeManager.isDialogOpen
    /\ knowledgeManager' = [knowledgeManager EXCEPT !.isDialogOpen = TRUE]
    /\ UNCHANGED <<storeVars, handlerVars, fnVars, authUser, searchInterface, nextItemId>>

\* handleEdit(item), lines 359-368, from the Edit button of a listed item
handleEdit(k) ==
    /\ ~knowledgeManager.isDialogOpen
    /\ k \in 1..Len(knowledgeManager.items)
    /\ LET item == knowledgeManager.items[k] IN
        knowledgeManager' =
            [knowledgeManager EXCEPT !.editingItem = item,
                                     !.formData = [title |-> item.title,
                                                   content |-> item.content,
                                                   tags |-> joinTags(item.tags)],
                                     !.isDialogOpen = TRUE]
    /\ UNCHANGED <<storeVars, handlerVars, fnVars, authUser, searchInterface, nextItemId>>

\* resetForm, lines 394-397
resetForm(km) == [km EXCEPT !.formData = EmptyForm, !.editingItem = NoItem]

\* the dialog is dismissed (Escape, click outside, its close button):
\* onOpenChange(false), lines 408-411
DialogDismissed ==
    /\ knowledgeManager.isDialogOpen
    /\ knowledgeManager' = resetForm([knowledgeManager EXCEPT !.isDialogOpen = FALSE])
    /\ UNCHANGED <<storeVars, handlerVars, fnVars, authUser, searchInterface, nextItemId>>

\* the Cancel button, lines 480-486: onClick={() => setIsDialogOpen(false)}
CancelClick ==
    /\ knowledgeManager.isDialogOpen
    /\ knowledgeManager' = [knowledgeManager EXCEPT !.isDialogOpen = FALSE]
    /\ UNCHANGED <<storeVars, handlerVars, fnVars, authUser, searchInterface, nextItemId>>

\* the onChange handlers of the form, lines 427-474
FormTyped(form) ==
    /\ knowledgeManager.isDialogOpen
    /\ form \in FormInputs
    /\ knowledgeManager' = [knowledgeManager EXCEPT !.formData = form]
    /\ UNCHANGED <<storeVars, handlerVars, fnVars, authUser, searchInterface, nextItemId>>

\* handleSubmit, lines 296-336: the form is checked, the user is read, and the
\* update or the insert is sent. When the form is incomplete, nobody is signed
\* in or the request answers with an error (requestFails), the handler ends
\* with a toast and no change of state
handleSubmit(requestFails) ==
    /\ knowledgeManager.isDialogOpen
    /\ LET formData == knowledgeManager.formData
           editingItem == knowledgeManager.editingItem
           itemData == [title |-> formData.title, content |-> formData.content,
                        tags |-> tagsOf(formData.tags), user_id |-> authUser]
       IN IF \/ trim(formData.title) = <<>>
             \/ trim(formData.content) = <<>>
             \/ authUser = NULL
             \/ requestFails
          THEN UNCHANGED <<knowledgeManager, knowledge_base, nextItemId>>
          ELSE /\ Len(knowledgeManager.pending) < MaxPending
               /\ knowledgeManager' =
                     [knowledgeManager EXCEPT !.pending = Append(@, "handleSubmit")]
               /\ IF editingItem # NoItem
                  THEN /\ knowledge_base' = UpdateItem(authUser, editingItem.id, itemData)
                       /\ UNCHANGED nextItemId
                  ELSE /\ nextItemId < FirstNewItemId + MaxInserts
                       /\ knowledge_base' = InsertItem(authUser, itemData)
                       /\ nextItemId' = nextItemId + 1
    /\ UNCHANGED <<search_queries, search_results, geminiApiKey, nextQueryId,
                   handlerVars, fnVars, authUser, searchInterface>>

\* handleSubmit, lines 338-348: the request has answered without error
SubmitAnswered(i, selectFails) ==
    /\ i \in 1..Len(knowledgeManager.pending)
    /\ knowledgeManager.pending[i] = "handleSubmit"
    /\ knowledgeManager' =
          LoadedItems([knowledgeManager EXCEPT !.pending = RemoveAt(@, i),
                                               !.formData = EmptyForm,
                                               !.isDialogOpen = FALSE,
                                               !.editingItem = NoItem],
                      selectFails)
    /\ UNCHANGED <<storeVars, handlerVars, fnVars, authUser, searchInterface, nextItemId>>

\* handleDelete(item.id), lines 370-375, from the Delete button of a listed
\* item; a request that answers with an error ends the handler with a toast
handleDelete(k, requestFails) ==
    /\ ~knowledgeManager.isDialogOpen
    /\ k \in 1..Len(knowledgeManager.items)
    /\ IF requestFails
       THEN UNCHANGED <<knowledgeManager, knowledge_base>>
       ELSE /\ Len(knowledgeManager.pending) < MaxPending
            /\ knowledge_base' = DeleteItem(authUser, knowledgeManager.items[k].id)
            /\ knowledgeManager' =
                  [knowledgeManager EXCEPT !.pending = Append(@, "handleDelete")]
    /\ UNCHANGED <<search_queries, search_results, geminiApiKey, nextQueryId,
                   handlerVars, fnVars, authUser, searchInterface, nextItemId>>

\* handleDelete, lines 377-383: the request has answered without error
DeleteAnswered(i, selectFails) ==
    /\ i \in 1..Len(knowledgeManager.pending)
    /\ knowledgeManager.pending[i] = "handleDelete"
    /\ knowledgeManager' =
          LoadedItems([knowledgeManager EXCEPT !.pending = RemoveAt(@, i)], selectFails)
    /\ UNCHANGED <<storeVars, handlerVars, fnVars, authUser, searchInterface, nextItemId>>

KnowledgeManagerInit == HandlerAtRest /\ FnIdle

KnowledgeManagerNext ==
    \/ \E selectFails \in BOOLEAN : KnowledgeManagerMount(selectFails)
    \/ \E user \in Users \cup {NULL} : SessionChanged(user)
    \/ AddKnowledgeClick
    \/ \E k \in 1..Len(knowledgeManager.items) : handleEdit(k)
    \/ DialogDismissed
    \/ CancelClick
    \/ \E form \in FormInputs : FormTyped(form)
    \/ \E requestFails \in BOOLEAN : handleSubmit(requestFails)
    \/ \E i \in 1..Len(knowledgeManager.pending), selectFails \in BOOLEAN :
            SubmitAnswered(i, selectFails)
    \/ \E k \in 1..Len(knowledgeManager.items), requestFails \in BOOLEAN :
            handleDelete(k, requestFails)
    \/ \E i \in 1..Len(knowledgeManager.pending), selectFails \in BOOLEAN :
            DeleteAnswered(i, selectFails)

KnowledgeManagerSpec == KnowledgeManagerInit /\ [][KnowledgeManagerNext]_vars

(***************************************************************************)
(* The claims about KnowledgeManager, checked under KnowledgeManagerSpec.  *)
(***************************************************************************)
\* the rows of a table or of a list of items, as a set
RowsOf(rows) == {rows[i] : i \in 1..Len(rows)}

\* C21: whatever the user of the session adds, edits or deletes in the
\* KnowledgeManager, no knowledge_base row of another owner is read,
\* modified or deleted, although update and delete name the row by id only.
C21_CrudIsolation ==
    [][/\ \A row \in RowsOf(knowledge_base) :
            row.user_id # authUser => row \in RowsOf(knowledge_base')
       /\ \A row \in RowsOf(knowledge_base') \ RowsOf(knowledge_base) :
            row.user_id = authUser
       /\ knowledgeManager'.items # knowledgeManager.items =>
            \A item \in RowsOf(knowledgeManager'.items) :
                item.user_id = authUser /\ item \in RowsOf(knowledge_base)
      ]_vars

\* a delete of the row of u2, sent from a session that is not the one of u2
\* (the list shows nothing else, and u2's own delete would have removed the
\* row), has been served, and the row is still in the table
C21_Witness ==
    /\ authUser = "u1"
    /\ knowledgeManager.items = <<InitialKnowledge[2]>>
    /\ knowledgeManager.pending = <<"handleDelete">>
    /\ knowledge_base = InitialKnowledge
    /\ nextItemId = FirstNewItemId

\* C23: whenever the dialog is closed, editingItem is null and the form is
\* reset, so that a submit after "Add Knowledge" inserts a new item and
\* never updates the item edited before.
C23_ClosedDialogIsReset ==
    ~knowledgeManager.isDialogOpen =>
        /\ knowledgeManager.editingItem = NoItem
        /\ knowledgeManager.formData = EmptyForm

(***************************************************************************)
(* SearchInterface: the component and its calls of the smart-search        *)
(* function.                                                               *)
(***************************************************************************)
ToastQueryRequired ==
    [title |-> "Search Query Required",
     description |-> "Please enter a search query to get started.", value |-> 0]
ToastAuthenticationRequired ==
    [title |-> "Authentication Required",
     description |-> "Please sign in to use the smart search feature.", value |-> 0]
ToastSearchError ==
    [title |-> "Search Error",
     description |-> "Failed to process your search. Please try again.", value |-> 0]

\* description: `Found results in ${data.processingTime}ms`
ToastSearchComplete(data) ==
    [title |-> "Search Complete", description |-> "Found results in ${value}ms",
     value |-> data.processingTime]

\* what the user types into the Textarea
QueryTexts == { <<>>, <<" ">>, <<"a">> }

\* one of the example searches: "PDF file, John sent it, budget numbers"
ExampleQueries ==
    { <<"P", "D", "F", " ", "f", "i", "l", "e", ",", " ", "J", "o", "h", "n", " ",
        "s", "e", "n", "t", " ", "i", "t", ",", " ", "b", "u", "d", "g", "e", "t", " ",
        "n", "u", "m", "b", "e", "r", "s">> }

\* the data of a 2xx answer of the function
InvokeData ==
    { [response |-> <<"o", "k">>, knowledgeMatches |-> <<>>, processingTime |-> 7,
       queryId |-> 1] }

\* the errors supabase.functions.invoke answers with: a non-2xx Response of the
\* function, an error of the relay, a failed fetch
InvokeErrors == {"FunctionsHttpError", "FunctionsRelayError", "FunctionsFetchError"}

\* onChange of the Textarea, which is disabled while isSearching
QueryTyped(text) ==
    /\ ~searchInterface.isSearching
    /\ text \in QueryTexts
    /\ searchInterface' = [searchInterface EXCEPT !.query = text]
    /\ UNCHANGED <<storeVars, handlerVars, fnVars, authUser, knowledgeManager, nextItemId>>

\* onClick of an example: setQuery(example)
ExampleClick(example) ==
    /\ example \in ExampleQueries
    /\ searchInterface' = [searchInterface EXCEPT !.query = example]
    /\ UNCHANGED <<storeVars, handlerVars, fnVars, authUser, knowledgeManager, nextItemId>>

\* onClick of a badge of the search history: setQuery(historyQuery)
HistoryClick(k) ==
    /\ k \in 1..Len(searchInterface.searchHistory)
    /\ searchInterface' = [searchInterface EXCEPT !.query = searchInterface.searchHistory[k]]
    /\ UNCHANGED <<storeVars, handlerVars, fnVars, authUser, knowledgeManager, nextItemId>>

\* handleSearch, lines 30-42: the query is checked, isSearching is set and the
\* user is asked for
handleSearch ==
    /\ searchInterface' =
          IF trim(searchInterface.query) = <<>>
          THEN [searchInterface EXCEPT !.toast = ToastQueryRequired]
          ELSE [searchInterface EXCEPT
                    !.isSearching = TRUE,
                    !.caught = "",
                    !.running = Append(@, [pc |-> "getUser",
                                           query |-> searchInterface.query,
                                           userId |-> undefined])]
    /\ Len(searchInterface'.running) <= MaxPending
    /\ UNCHANGED <<storeVars, handlerVars, fnVars, authUser, knowledgeManager, nextItemId>>

\* onClick of the Button, disabled={isSearching || !query.trim()}
SearchClick ==
    /\ ~searchInterface.isSearching
    /\ trim(searchInterface.query) # <<>>
    /\ handleSearch

\* handleKeyPress, lines 79-84, with Enter and no Shift, on the Textarea,
\* which is disabled while isSearching
handleKeyPress ==
    /\ ~searchInterface.isSearching
    /\ handleSearch

\* handleSearch without its finally block when nobody is signed in
UserReadNoFinally(i) ==
    /\ i \in 1..Len(searchInterface.running)
    /\ searchInterface.running[i].pc = "getUser"
    /\ searchInterface' =
          IF authUser = NULL
          THEN [searchInterface EXCEPT !.toast = ToastAuthenticationRequired,
                                       !.running = RemoveAt(@, i)]
          ELSE [searchInterface EXCEPT !.running[i].pc = "invoke",
                                       !.running[i].userId = authUser]
    /\ UNCHANGED <<storeVars, handlerVars, fnVars, authUser, knowledgeManager, nextItemId>>

\* handleSearch, lines 42-55 and 74-76: getUser has answered; without a user the
\* call returns through finally, with one the function is invoked
UserRead(i) ==
    /\ i \in 1..Len(searchInterface.running)
    /\ searchInterface.running[i].pc = "getUser"
    /\ searchInterface' =
          IF authUser = NULL
          THEN [searchInterface EXCEPT !.toast = ToastAuthenticationRequired,
                                       !.isSearching = FALSE,
                                       !.running = RemoveAt(@, i)]
          ELSE [searchInterface EXCEPT !.running[i].pc = "invoke",
                                       !.running[i].userId = authUser]
    /\ UNCHANGED <<storeVars, handlerVars, fnVars, authUser, knowledgeManager, nextItemId>>

\* prev.slice(0, 4)
slice04(prev) == SubSeq(prev, 1, IF Len(prev) < 4 THEN Len(prev) ELSE 4)

\* handleSearch, lines 57-66 and 74-76: the function has answered with data
InvokeAnswered(i, data) ==
    /\ i \in 1..Len(searchInterface.running)
    /\ searchInterface.running[i].pc = "invoke"
    /\ data \in InvokeData
    /\ searchInterface' =
          [searchInterface EXCEPT
                !.result = data,
                !.searchHistory = <<searchInterface.running[i].query>> \o slice04(@),
                !.query = <<>>,
                !.toast = ToastSearchComplete(data),
                !.isSearching = FALSE,
                !.running = RemoveAt(@, i)]
    /\ UNCHANGED <<storeVars, handlerVars, fnVars, authUser, knowledgeManager, nextItemId>>

\* InvokeFailed with the error shown in the toast
InvokeFailedShowsError(i, error) ==
    /\ i \in 1..Len(searchInterface.running)
    /\ searchInterface.running[i].pc = "invoke"
    /\ error \in InvokeErrors
    /\ searchInterface' =
          [searchInterface EXCEPT
                !.caught = error,
                !.toast = [ToastSearchError EXCEPT !.description = error],
                !.isSearching = FALSE,
                !.running = RemoveAt(@, i)]
    /\ UNCHANGED <<storeVars, handlerVars, fnVars, authUser, knowledgeManager, nextItemId>>

\* handleSearch, lines 57 and 67-76: the function has answered with an error,
\* which is thrown, caught and logged
InvokeFailed(i, error) ==
    /\ i \in 1..Len(searchInterface.running)
    /\ searchInterface.running[i].pc = "invoke"
    /\ error \in InvokeErrors
    /\ searchInterface' =
          [searchInterface EXCEPT
                !.caught = error,
                !.toast = ToastSearchError,
                !.isSearching = FALSE,
                !.running = RemoveAt(@, i)]
    /\ UNCHANGED <<storeVars, handlerVars, fnVars, authUser, knowledgeManager, nextItemId>>

SearchInterfaceInit == HandlerAtRest /\ FnIdle

SearchInterfaceNext ==
    \/ \E user \in Users \cup {NULL} : SessionChanged(user)
    \/ \E text \in QueryTexts : QueryTyped(text)
    \/ \E example \in ExampleQueries : ExampleClick(example)
    \/ \E k \in 1..Len(searchInterface.searchHistory) : HistoryClick(k)
    \/ SearchClick
    \/ handleKeyPress
    \/ \E i \in 1..Len(searchInterface.running) : UserRead(i)
    \/ \E i \in 1..Len(searchInterface.running), data \in InvokeData :
            InvokeAnswered(i, data)
    \/ \E i \in 1..Len(searchInterface.running), error \in InvokeErrors :
            InvokeFailed(i, error)

SearchInterfaceSpec == SearchInterfaceInit /\ [][SearchInterfaceNext]_vars

(***************************************************************************)
(* The claims about SearchInterface, checked under SearchInterfaceSpec.    *)
(***************************************************************************)
\* a step in which a call of handleSearch catches an error of the function
CatchesSearchError == searchInterface.caught = "" /\ searchInterface'.caught # ""

\* C22: whenever the backend search fails, with whatever kind of error, the
\* user sees the same generic search-error message, and the displayed result,
\* the search history and the query text stay as they were.
C22_FailureShowsGenericMessage ==
    [][CatchesSearchError =>
            /\ searchInterface'.caught \in InvokeErrors
            /\ searchInterface'.toast =
                  [title |-> "Search Error",
                   description |-> "Failed to process your search. Please try again.",
                   value |-> 0]
            /\ searchInterface'.result = searchInterface.result
            /\ searchInterface'.searchHistory = searchInterface.searchHistory
            /\ searchInterface'.query = searchInterface.query
      ]_vars

\* a search has failed after an earlier one succeeded: the earlier result, the
\* history and the query typed are still there
C22_Witness ==
    /\ searchInterface.caught = "FunctionsHttpError"
    /\ searchInterface.toast.title = "Search Error"
    /\ searchInterface.running = <<>>
    /\ searchInterface.result # NoData
    /\ searchInterface.searchHistory = << <<"a">> >>
    /\ searchInterface.query # <<>>

\* the calls of handleSearch that await the answer of the function
InFlight == SelectSeq(searchInterface.running, LAMBDA call : call.pc = "invoke")

\* C24: isSearching is true only while a search is in flight: every path out
\* of handleSearch that set it resets it, and no second search starts while
\* it is true, so at most one search request is in flight at any time.
C24_OneSearchInFlight ==
    /\ searchInterface.isSearching <=> searchInterface.running # <<>>
    /\ Len(searchInterface.running) <= 1
    /\ Len(InFlight) <= 1
    /\ \A i \in 1..Len(searchInterface.running) :
            trim(searchInterface.running[i].query) # <<>>

\* a search is in flight after an earlier search has succeeded and another has
\* ended for want of a user
C24_Witness ==
    /\ searchInterface.isSearching
    /\ Len(InFlight) = 1
    /\ searchInterface.searchHistory # <<>>
    /\ searchInterface.toast = ToastAuthenticationRequired
    /\ searchInterface.query # InFlight[1].query
====
